---- MODULE Spec2Model ----
(***************************************************************************)
(* VidFlow: the export job orchestrator (modules/export.js, class          *)
(* Exporter) together with the parts of the application it shares state    *)
(* with: the <video> element, the Player controls, the AudioFX instance    *)
(* of the current visit, the router and VidFlowApp.                        *)
(*                                                                         *)
(* JavaScript runs every handler to completion, so one action is one       *)
(* handler, or the stretch of an async function between two awaits.  An    *)
(* event that has several listeners (a click on a control every Exporter   *)
(* has subscribed to, the media's 'ended' event) is a queue of handler     *)
(* invocations, `dispatch`, that the browser drains before anything else   *)
(* runs.                                                                   *)
(***************************************************************************)
EXTENDS Integers, Sequences, FiniteSets, TLC

\* Bounds of the model.
MaxClock == 100       \* audioContext.currentTime the audio clock is followed up to, in ms
MaxJobs == 2          \* export jobs started in one behaviour
MaxVisits == 1        \* visits of the watch view (one Exporter per visit)
MaxRevisits == 2      \* visits of the watch view where the view is left and re-entered
Duration == 1         \* video.duration, in playback steps
ProgressSteps == 1    \* the engine reports progress k/ProgressSteps, k in 0..ProgressSteps

MaxTaps == 1          \* calls of getProcessedStream made apart from an export
MaxChannels == 2      \* channels of an AudioBuffer handed to audioBufferToWav
MaxFrames == 2        \* frames of such a buffer

\* Math.round(NaN) and NaN percentages are shown as this value.
NaN == 0 - 1

Exporters == 1..(IF MaxRevisits > MaxVisits THEN MaxRevisits ELSE MaxVisits)
JobIds == 1..MaxJobs
NoJob == 0

VARIABLES
  \* VidFlowApp / Router
  view,             \* router.currentView: "home" | "watch"
  initPc,           \* initWatchView: "none" | "loading" (awaiting player.loadVideo)
  videoFile,        \* app.videoFile is non-null
  currentVideo,     \* app.currentVideo: "null" | "file" | "url" (its type)
  urlPending,       \* a handleUrlSubmit is awaiting its HEAD fetch
  nExp,             \* number of Exporter instances constructed so far
  \* the <video id="video-player"> element
  currentTime,      \* video.currentTime, 0..Duration
  paused,           \* video.paused
  hasMedia,         \* metadata loaded (video.duration is a number)
  endedListeners,   \* jobs whose onEnded is registered, in registration order
  \* app.audioFx (the AudioFX of the current visit)
  fxLive,           \* app.audioFx is non-null
  audioContext,     \* "null" | "ready" | "partial" (set, but construction threw)
  currentPreset,    \* "off" | "speech" | "music-reduce"
  isProcessed,
  playListener,     \* the once-listener for 'play': "none" | "attached" | "firing" | "gone"
  reductionStrength,\* this.reductionStrength, in percent
  filters,          \* NoNode, or the parameters of the four filter nodes
  bypassGain,       \* NoNode, or the last ramp scheduled on bypassGain.gain
  processedGain,    \* NoNode, or the last ramp scheduled on processedGain.gain
  ctxTime,          \* audioContext.currentTime, in milliseconds
  nodeCount,        \* audio nodes initAudioContext has created
  connectCount,     \* connect() calls initAudioContext has made
  taps,             \* the stream destinations getProcessedStream has created and
                    \* connected, each by the node it taps: "compressor" | "source"
  \* Exporter instances, by index of construction
  isExporting,
  abortController,  \* NoJob (null) or the job whose closure the handle holds
  ffmpeg,           \* this.ffmpeg: "null" | "created" (not loaded) | "loaded"
  isLoading,
  \* the engine behind each Exporter's this.ffmpeg
  fsInput,          \* input.mp4 exists in the engine's storage
  fsOutput,         \* output.mp4 exists in the engine's storage
  progListeners,    \* jobs whose 'progress' listener is registered on the engine
  \* export jobs: one record per invocation that got past the guards
  jobs,
  \* the export modal
  modal,            \* the export modal is shown
  progress,         \* the percentage last passed to updateExportProgress (rounded as displayed)
  progressBy,       \* the jobs whose code made that last call
  \* what the last step handed to the boundaries
  toast,            \* ui.showToast: the message, "none" if the step showed none
  download,         \* downloadBlob: the file's extension, "none" if the step delivered none
  filename,         \* downloadBlob: the name of that file, NoFile if the step delivered none
  command,          \* ffmpeg.exec: the arguments, NoCommand if the step started no exec
  \* the browser's queue of handler invocations of the event being dispatched
  dispatch,
  \* Exporter.audioBufferToWav, on its own
  buffer,           \* the AudioBuffer it is called with, NoBuffer if none
  wav               \* the bytes of the ArrayBuffer it returned, <<>> before it returns

appVars == <<view, initPc, videoFile, currentVideo, urlPending, nExp>>
mediaVars == <<currentTime, paused, hasMedia, endedListeners>>
graphVars == <<reductionStrength, filters, bypassGain, processedGain, ctxTime, nodeCount,
               connectCount, taps>>
fxVars == <<fxLive, audioContext, currentPreset, isProcessed, playListener, graphVars>>
expVars == <<isExporting, abortController, ffmpeg, isLoading>>
engVars == <<fsInput, fsOutput, progListeners>>
domVars == <<modal, progress, progressBy>>
wavVars == <<buffer, wav>>
vars == <<appVars, mediaVars, fxVars, expVars, engVars, domVars, toast, download, filename,
          command, jobs, dispatch, wavVars>>

Presets == {"off", "speech", "music-reduce"}

----------------------------------------------------------------------------
\* Helpers

\* Math.round(a / b) for a >= 0, b > 0
Round(a, b) == (2 * a + b) \div (2 * b)

\* HTMLMediaElement.pause(): pending play() promises are rejected
PauseJobs(js) ==
  [i \in DOMAIN js |-> IF js[i].pc = "play" THEN [js[i] EXCEPT !.pc = "playRej"] ELSE js[i]]

\* the 'play' event is queued when play() takes the media out of the paused state
PlayListenerAfterPlay ==
  IF paused /\ playListener = "attached" THEN "firing" ELSE playListener

\* a node field of AudioFX that holds null
NoNode == [null |-> TRUE]

\* AudioFX.constructor: this.reductionStrength = 50
DefaultStrength == 50

\* updateBypass: fadeTime = 0.05 s, in milliseconds
FadeTime == 50

\* initAudioContext creates the source, three gains, the analyser and four filters
NodesOfGraph == 9

\* initAudioContext wires them with eleven connect() calls
ConnectionsOfGraph == 11

\* AudioFX.createFilters: gains in hundredths of a dB, Q in tenths, ratio in hundredths
CreateFilters ==
  [lowShelfGain |-> 0, highShelfGain |-> 0, peakFreq |-> 2000, peakQ |-> 5, peakGain |-> 0,
   threshold |-> 0 - 2400, ratio |-> 400]

\* an updateFilters whose speech preset boosts the peak by 6 * (1 - strength)
UpdateFiltersFadingBoost(f, preset, strength) ==
  IF preset = "speech" THEN
    [f EXCEPT !.lowShelfGain = (0 - 12) * strength, !.highShelfGain = (0 - 8) * strength,
              !.peakFreq = 2500, !.peakGain = 6 * (100 - strength), !.peakQ = 8,
              !.threshold = (0 - 2000) - 10 * strength, !.ratio = 400 + 4 * strength]
  ELSE IF preset = "music-reduce" THEN
    [f EXCEPT !.lowShelfGain = (0 - 15) * strength, !.highShelfGain = (0 - 10) * strength,
              !.peakFreq = 1500, !.peakGain = 3 * strength, !.peakQ = 5,
              !.threshold = 0 - 3000, !.ratio = 600 + 6 * strength]
  ELSE
    [f EXCEPT !.lowShelfGain = 0, !.highShelfGain = 0, !.peakGain = 0,
              !.threshold = 0 - 2400, !.ratio = 400]

\* AudioFX.updateFilters on the filter nodes f: strength = reductionStrength / 100
UpdateFilters(f, preset, strength) ==
  IF preset = "speech" THEN
    [f EXCEPT !.lowShelfGain = (0 - 12) * strength, !.highShelfGain = (0 - 8) * strength,
              !.peakFreq = 2500, !.peakGain = 6 * strength, !.peakQ = 8,
              !.threshold = (0 - 2000) - 10 * strength, !.ratio = 400 + 4 * strength]
  ELSE IF preset = "music-reduce" THEN
    [f EXCEPT !.lowShelfGain = (0 - 15) * strength, !.highShelfGain = (0 - 10) * strength,
              !.peakFreq = 1500, !.peakGain = 3 * strength, !.peakQ = 5,
              !.threshold = 0 - 3000, !.ratio = 600 + 6 * strength]
  ELSE
    [f EXCEPT !.lowShelfGain = 0, !.highShelfGain = 0, !.peakGain = 0,
              !.threshold = 0 - 2400, !.ratio = 400]

\* gain.linearRampToValueAtTime(target, now + fadeTime), called at now
Ramp(target, now) == [target |-> target, start |-> now, end |-> now + FadeTime]

\* AudioFX.updateBypass with this.isProcessed = processed: the ramp on bypassGain.gain
BypassRamp(processed, now) == Ramp(IF processed THEN 0 ELSE 1, now)

\* an updateBypass that ramps both gains the same way
ProcessedRampSameWay(processed, now) == Ramp(IF processed THEN 0 ELSE 1, now)

\* AudioFX.updateBypass with this.isProcessed = processed: the ramp on processedGain.gain
ProcessedRamp(processed, now) == Ramp(IF processed THEN 1 ELSE 0, now)

\* an isAudioProcessed that looks at the A/B state only
IsAudioProcessedAnyPreset == isProcessed

\* AudioFX.isAudioProcessed
IsAudioProcessed == isProcessed /\ currentPreset # "off"

\* A job whose code has nothing left to run keeps no state of its own.
DoneJob == [kind |-> "none", owner |-> 0, pc |-> "done", startTime |-> 0,
            origPaused |-> TRUE, cancelled |-> FALSE, execProgress |-> 0,
            recording |-> FALSE, fx |-> FALSE]

\* kind: "audio" | "video"; owner: the Exporter; pc: where the job's code is suspended;
\* startTime: the capture's snapshot of video.currentTime and origPaused: video.paused
\* when the capture started (both kept while the capture has the media);
\* cancelled: cancelExport was called on the owner since the job started;
\* execProgress: the last progress the engine reported for the job's exec;
\* recording: the job's MediaRecorder is in the state 'recording' (started, not stopped);
\* fx: the video export's `const audioFx = this.app.audioFx` is non-null (kept until
\* the preset is read from it)
NewJob(k, e, where) ==
  [kind |-> k, owner |-> e, pc |-> where, startTime |-> 0, origPaused |-> TRUE,
   cancelled |-> FALSE, execProgress |-> 0, recording |-> FALSE, fx |-> FALSE]

\* the job's code has run to its end; its recorder is what it was
Settle(js, j) == [js EXCEPT ![j] = [DoneJob EXCEPT !.recording = js[j].recording]]

Quiet == dispatch = <<>>

\* the name of an uploaded file and the last path segment of a submitted URL, as the
\* sequences of their characters
FileName == <<"a", ".", "b", ".", "c">>
UrlName == <<"v">>

\* app.currentVideo.name
VideoName == IF currentVideo = "file" THEN FileName
             ELSE IF currentVideo = "url" THEN UrlName
             ELSE <<>>

\* name.replace(/\.[^/.]+$/, ''): the last dot, when one or more characters other than
\* '/' and '.' follow it up to the end, is removed with what follows
StripExtension(name) ==
  LET dots == {i \in 1..Len(name) : name[i] = "."} IN
  IF dots = {} THEN name
  ELSE LET d == CHOOSE i \in dots : \A k \in dots : k <= i IN
       IF d < Len(name) /\ \A i \in (d + 1)..Len(name) : name[i] # "/"
         THEN SubSeq(name, 1, d - 1)
         ELSE name

\* no exec was started
NoCommand == [video |-> "none", audio |-> "none", filter |-> "none"]

\* an export that applies the filter only while the processed path is the active one
ExecArgsOfActivePath(preset) ==
  IF preset \in {"speech", "music-reduce"} /\ isProcessed
    THEN [video |-> "copy", audio |-> "aac", filter |-> preset]
    ELSE [video |-> "copy", audio |-> "copy", filter |-> "none"]

\* the arguments of ffmpeg.exec for `preset`: -c:v copy -c:a aac -af <the preset's
\* expression>, or -c copy when audioFilter stayed ''
ExecArgs(preset) ==
  IF preset \in {"speech", "music-reduce"}
    THEN [video |-> "copy", audio |-> "aac", filter |-> preset]
    ELSE [video |-> "copy", audio |-> "copy", filter |-> "none"]

\* no file was handed to downloadBlob
NoFile == [base |-> <<>>, preset |-> "none", ext |-> "none"]

\* Exporter.getExportFilename: `${baseName}_${preset}.${extension}`, by its parts
GetExportFilename(extension) ==
  [base |-> IF StripExtension(VideoName) = <<>>
              THEN <<"v", "i", "d", "e", "o">> ELSE StripExtension(VideoName),
   preset |-> IF fxLive THEN currentPreset ELSE "original",
   ext |-> extension]

\* no AudioBuffer
NoBuffer == [numberOfChannels |-> 0, sampleRate |-> 0, length |-> 0, channels |-> <<>>]

\* the step shows no toast and delivers no file
Silent == toast' = "none" /\ download' = "none" /\ filename' = NoFile /\ UNCHANGED wavVars /\ command' = NoCommand

----------------------------------------------------------------------------
\* the application after `new VidFlowApp()`
Constructed ==
  /\ view = "home" /\ initPc = "none" /\ videoFile = FALSE /\ currentVideo = "null"
  /\ urlPending = FALSE /\ nExp = 0
  /\ currentTime = 0 /\ paused = TRUE /\ hasMedia = FALSE /\ endedListeners = <<>>
  /\ fxLive = FALSE /\ audioContext = "null" /\ currentPreset = "off"
  /\ isProcessed = FALSE /\ playListener = "none"
  /\ reductionStrength = DefaultStrength /\ filters = NoNode
  /\ bypassGain = NoNode /\ processedGain = NoNode
  /\ ctxTime = 0 /\ nodeCount = 0 /\ connectCount = 0 /\ taps = <<>>
  /\ isExporting = [e \in Exporters |-> FALSE]
  /\ abortController = [e \in Exporters |-> NoJob]
  /\ ffmpeg = [e \in Exporters |-> "null"]
  /\ isLoading = [e \in Exporters |-> FALSE]
  /\ fsInput = [e \in Exporters |-> FALSE]
  /\ fsOutput = [e \in Exporters |-> FALSE]
  /\ progListeners = [e \in Exporters |-> {}]
  /\ jobs = <<>>
  /\ modal = FALSE /\ progress = 0 /\ progressBy = {}
  /\ toast = "none" /\ download = "none" /\ filename = NoFile /\ command = NoCommand
  /\ dispatch = <<>>

Init == Constructed /\ buffer = NoBuffer /\ wav = <<>>

----------------------------------------------------------------------------
\* VidFlowApp and Router

\* Router.showView('watch') -> VidFlowApp.initWatchView up to `await player.loadVideo`:
\* video.src = url; video.load() resets the element
EnterWatch ==
  /\ view' = "watch" /\ initPc' = "loading"
  /\ currentTime' = 0 /\ paused' = TRUE /\ hasMedia' = FALSE
  /\ jobs' = PauseJobs(jobs)

\* the sources selected so far that have led, or may still lead, to a visit
Selected == nExp + (IF urlPending THEN 1 ELSE 0)

\* VidFlowApp.handleFileUpload (the upload zone belongs to the home view), while fewer
\* than `limit` sources were selected
SelectFile(limit) ==
  /\ Quiet /\ view = "home" /\ Selected < limit
  /\ videoFile' = TRUE /\ currentVideo' = "file"
  /\ EnterWatch
  /\ Silent
  /\ UNCHANGED <<urlPending, nExp, endedListeners, fxVars, expVars, engVars, domVars,
                 dispatch>>

HandleFileUpload == SelectFile(MaxVisits)

\* VidFlowApp.handleUrlSubmit up to `await fetch`, while fewer than `limit` sources
\* were selected
SubmitUrl(limit) ==
  /\ Quiet /\ view = "home" /\ ~urlPending /\ Selected < limit
  /\ urlPending' = TRUE
  /\ Silent
  /\ UNCHANGED <<view, initPc, videoFile, currentVideo, nExp, mediaVars, fxVars, expVars,
                 engVars, domVars, jobs, dispatch>>

HandleUrlSubmit == SubmitUrl(MaxVisits)

\* VidFlowApp.handleUrlSubmit after the fetch: isVideo is the content-type test; a
\* rejected fetch (CORS) takes the catch branch, which sets the same fields.
\* router.navigate('watch') changes the hash, and so shows the view, only from home.
UrlFetchDone(isVideo) ==
  /\ Quiet /\ urlPending
  /\ urlPending' = FALSE
  /\ download' = "none"
  /\ filename' = NoFile /\ UNCHANGED wavVars /\ command' = NoCommand
  /\ IF ~isVideo
       THEN /\ toast' = "URL does not appear to be a video file"
            /\ UNCHANGED <<view, initPc, videoFile, currentVideo, currentTime, paused,
                           hasMedia, jobs>>
       ELSE /\ videoFile' = FALSE /\ currentVideo' = "url"
            /\ toast' = "none"
            /\ IF view = "home"
                 THEN EnterWatch
                 ELSE UNCHANGED <<view, initPc, currentTime, paused, hasMedia, jobs>>
  /\ UNCHANGED <<nExp, endedListeners, fxVars, expVars, engVars, domVars, dispatch>>

\* initWatchView after loadVideo resolved ('loadedmetadata'): new AudioFX, new Exporter
LoadedMetadata ==
  /\ Quiet /\ initPc = "loading"
  /\ initPc' = "none" /\ hasMedia' = TRUE
  /\ fxLive' = TRUE /\ audioContext' = "null" /\ currentPreset' = "off"
  /\ isProcessed' = FALSE /\ playListener' = "attached"
  /\ reductionStrength' = DefaultStrength /\ filters' = NoNode
  /\ bypassGain' = NoNode /\ processedGain' = NoNode
  /\ ctxTime' = 0 /\ nodeCount' = 0 /\ connectCount' = 0 /\ taps' = <<>>
  /\ nExp' = nExp + 1   \* the fields of an Exporter not yet constructed hold the
                        \* values its constructor gives them (Init)
  /\ Silent
  /\ UNCHANGED <<view, videoFile, currentVideo, urlPending, currentTime, paused,
                 endedListeners, expVars, engVars, domVars, jobs, dispatch>>

\* Player.loadVideo rejected ('error'): initWatchView stops there
LoadError ==
  /\ Quiet /\ initPc = "loading"
  /\ initPc' = "none"
  /\ toast' = "Failed to load video. Please check the URL or file."
  /\ download' = "none"
  /\ filename' = NoFile /\ UNCHANGED wavVars /\ command' = NoCommand
  /\ UNCHANGED <<view, videoFile, currentVideo, urlPending, nExp, mediaVars, fxVars,
                 expVars, engVars, domVars, jobs, dispatch>>

\* Router.showView('home') from the watch view -> VidFlowApp.cleanup:
\* player.destroy() pauses and unloads the media, audioFx.destroy(), audioFx = null
GoHome ==
  /\ Quiet /\ view = "watch"
  /\ view' = "home" /\ initPc' = "none"
  /\ currentTime' = 0 /\ paused' = TRUE /\ hasMedia' = FALSE
  /\ jobs' = PauseJobs(jobs)
  /\ fxLive' = FALSE /\ audioContext' = "null" /\ playListener' = "none"
  /\ Silent
  /\ UNCHANGED <<videoFile, currentVideo, urlPending, nExp, endedListeners, currentPreset,
                 isProcessed, graphVars, expVars, engVars, domVars, dispatch>>

----------------------------------------------------------------------------
\* The media element and the Player controls

\* playback advances by one step
MediaAdvance ==
  /\ Quiet /\ hasMedia /\ ~paused /\ currentTime < Duration
  /\ currentTime' = currentTime + 1
  /\ Silent
  /\ UNCHANGED <<appVars, paused, hasMedia, endedListeners, fxVars, expVars, engVars,
                 domVars, jobs, dispatch>>

\* playback reached the end: the element pauses and fires 'ended' at every listener
\* (the element's tasks run in order: a play() promise settles before a later 'ended')
MediaEnded ==
  /\ Quiet /\ hasMedia /\ ~paused /\ currentTime = Duration
  /\ \A j \in DOMAIN jobs : jobs[j].pc # "play"
  /\ paused' = TRUE
  /\ dispatch' = [i \in DOMAIN endedListeners |-> <<"ended", endedListeners[i]>>]
  /\ Silent
  /\ UNCHANGED <<appVars, currentTime, hasMedia, endedListeners, fxVars, expVars, engVars,
                 domVars, jobs>>

\* Player.togglePlay
TogglePlay ==
  /\ Quiet /\ view = "watch" /\ hasMedia
  /\ IF paused
       THEN /\ paused' = FALSE /\ playListener' = PlayListenerAfterPlay
            /\ UNCHANGED jobs
       ELSE /\ paused' = TRUE /\ jobs' = PauseJobs(jobs)
            /\ UNCHANGED playListener
  /\ Silent
  /\ UNCHANGED <<appVars, currentTime, hasMedia, endedListeners, fxLive, audioContext,
                 currentPreset, isProcessed, graphVars, expVars, engVars, domVars, dispatch>>

\* Player.skip(seconds)
Skip(seconds) ==
  /\ Quiet /\ view = "watch" /\ hasMedia
  /\ LET t == currentTime + seconds
         m == IF Duration < t THEN Duration ELSE t
     IN currentTime' = IF 0 > m THEN 0 ELSE m
  /\ Silent
  /\ UNCHANGED <<appVars, paused, hasMedia, endedListeners, fxVars, expVars, engVars,
                 domVars, jobs, dispatch>>

----------------------------------------------------------------------------
\* AudioFX

\* AudioFX.initAudioContext. outcome: "ready", or where the construction threw: "null"
\* in `new AudioContext()`, "partial" in createMediaElementSource, after
\* this.audioContext was assigned.
InitAudioContextBody(outcome) ==
  IF audioContext # "null" THEN
    /\ Silent
    /\ UNCHANGED <<audioContext, filters, bypassGain, processedGain, ctxTime, nodeCount,
                   connectCount>>
  ELSE
    /\ audioContext' = outcome
    /\ ctxTime' = 0
    /\ IF outcome = "ready"
         THEN /\ nodeCount' = nodeCount + NodesOfGraph
              /\ connectCount' = connectCount + ConnectionsOfGraph
              /\ filters' = CreateFilters
              /\ bypassGain' = BypassRamp(isProcessed, 0)
              /\ processedGain' = ProcessedRamp(isProcessed, 0)
              /\ Silent
         ELSE /\ toast' = "Audio processing unavailable in this browser"
              /\ download' = "none"
              /\ filename' = NoFile /\ UNCHANGED wavVars /\ command' = NoCommand
              /\ UNCHANGED <<filters, bypassGain, processedGain, nodeCount, connectCount>>

\* AudioFX.initAudioContext, run by the once-listener for the media's 'play' event
InitAudioContext(outcome) ==
  /\ Quiet /\ playListener = "firing"
  /\ playListener' = "gone"
  /\ InitAudioContextBody(outcome)
  /\ UNCHANGED <<appVars, mediaVars, fxLive, currentPreset, isProcessed, reductionStrength,
                 taps, expVars, engVars, domVars, jobs, dispatch>>

\* a handler of AudioFX reaches a node that was never created: a TypeError ends it
NodeMissing == audioContext = "partial"

\* AudioFX.setPreset: updateFilters, then the switch of the output and updateBypass
SetPreset(preset) ==
  /\ Quiet /\ view = "watch" /\ fxLive
  /\ currentPreset' = preset
  /\ IF NodeMissing THEN UNCHANGED <<isProcessed, filters, bypassGain, processedGain>>
     ELSE
       /\ filters' = IF audioContext = "ready"
                       THEN UpdateFilters(filters, preset, reductionStrength) ELSE filters
       /\ isProcessed' = IF preset # "off" /\ ~isProcessed THEN TRUE
                         ELSE IF preset = "off" /\ isProcessed THEN FALSE
                         ELSE isProcessed
       /\ IF audioContext = "ready" /\ isProcessed' # isProcessed
            THEN /\ bypassGain' = BypassRamp(isProcessed', ctxTime)
                 /\ processedGain' = ProcessedRamp(isProcessed', ctxTime)
            ELSE UNCHANGED <<bypassGain, processedGain>>
  /\ Silent
  /\ UNCHANGED <<appVars, mediaVars, fxLive, audioContext, playListener, reductionStrength,
                 ctxTime, nodeCount, connectCount, taps, expVars, engVars, domVars, jobs,
                 dispatch>>

\* the A/B toggle's click handler (AudioFX.init)
ABToggle ==
  /\ Quiet /\ view = "watch" /\ fxLive
  /\ isProcessed' = ~isProcessed
  /\ IF audioContext = "ready"
       THEN /\ bypassGain' = BypassRamp(isProcessed', ctxTime)
            /\ processedGain' = ProcessedRamp(isProcessed', ctxTime)
       ELSE UNCHANGED <<bypassGain, processedGain>>
  /\ Silent
  /\ UNCHANGED <<appVars, mediaVars, fxLive, audioContext, currentPreset, playListener,
                 reductionStrength, filters, ctxTime, nodeCount, connectCount, taps,
                 expVars, engVars, domVars, jobs, dispatch>>

\* AudioFX.initAudioContext called again on the AudioFX of the visit, after the
\* once-listener has made the first call
CallInitAudioContext(outcome) ==
  /\ Quiet /\ fxLive /\ playListener = "gone"
  /\ InitAudioContextBody(outcome)
  /\ UNCHANGED <<appVars, mediaVars, fxLive, currentPreset, isProcessed, playListener,
                 reductionStrength, taps, expVars, engVars, domVars, jobs, dispatch>>

\* the values the strength slider is moved to
Strengths == {0, 35, 100}

\* a getProcessedStream without the test of this.audioContext
GetProcessedStreamUnguarded ==
  IF NodeMissing THEN "throws"
  ELSE IF currentPreset # "off" THEN "compressor"
  ELSE "source"

\* a getProcessedStream that taps the source whatever the preset
GetProcessedStreamRaw ==
  IF audioContext = "null" THEN "null"
  ELSE IF NodeMissing THEN "throws"
  ELSE "source"

\* AudioFX.getProcessedStream: "null", or the node the returned stream taps, or
\* "throws" (connect on a node that was never created)
GetProcessedStream ==
  IF audioContext = "null" THEN "null"
  ELSE IF NodeMissing THEN "throws"
  ELSE IF currentPreset # "off" THEN "compressor"
  ELSE "source"

\* the taps of the graph after a call of getProcessedStream
TapsAfterCall ==
  IF GetProcessedStream \in {"null", "throws"} THEN taps ELSE Append(taps, GetProcessedStream)

\* AudioFX.getProcessedStream called on the AudioFX of the visit; a call that throws
\* or returns null leaves the graph as it is
CallGetProcessedStream ==
  /\ Quiet /\ fxLive /\ Len(taps) < MaxTaps
  /\ taps' = TapsAfterCall
  /\ Silent
  /\ UNCHANGED <<appVars, mediaVars, fxLive, audioContext, currentPreset, isProcessed,
                 playListener, reductionStrength, filters, bypassGain, processedGain,
                 ctxTime, nodeCount, connectCount, expVars, engVars, domVars, jobs,
                 dispatch>>

\* the values the 'input' event hands to the handler: the handler takes whatever the
\* element holds, and nothing in the code keeps that within 0..100
Requested == Strengths \cup {150}

\* the strength slider's 'input' handler (AudioFX.init): the value, then updateFilters
SliderInput(value) ==
  /\ Quiet /\ view = "watch" /\ fxLive
  /\ reductionStrength' = value
  /\ filters' = IF audioContext = "ready"
                  THEN UpdateFilters(filters, currentPreset, value) ELSE filters
  /\ Silent
  /\ UNCHANGED <<appVars, mediaVars, fxLive, audioContext, currentPreset, isProcessed,
                 playListener, bypassGain, processedGain, ctxTime, nodeCount, connectCount,
                 taps, expVars, engVars, domVars, jobs, dispatch>>

\* the audio clock of a constructed graph advances by half a fade
AudioClock ==
  /\ Quiet /\ audioContext = "ready"
  /\ ctxTime + (FadeTime \div 2) <= MaxClock
  /\ ctxTime' = ctxTime + (FadeTime \div 2)
  /\ Silent
  /\ UNCHANGED <<appVars, mediaVars, fxLive, audioContext, currentPreset, isProcessed,
                 playListener, reductionStrength, filters, bypassGain, processedGain,
                 nodeCount, connectCount, taps, expVars, engVars, domVars, jobs, dispatch>>

----------------------------------------------------------------------------
\* Exporter: audio export

\* a guard that tests the flag of the engine load in place of the flag of the job
ExportBusyWrongFlag(e) == isLoading[e]

\* the guard of downloadProcessedAudio / downloadProcessedVideo
ExportBusy(e) == isExporting[e]

\* the percentage the capture's interval reports: (currentTime / duration) * 70
CaptureProgress == IF hasMedia THEN Round(currentTime * 70, Duration) ELSE NaN

\* the catch block of downloadProcessedAudio, for job j of exporter e
AudioCatch(j, e) ==
  /\ toast' = "Audio export failed"
  /\ download' = "none"
  /\ filename' = NoFile /\ UNCHANGED wavVars /\ command' = NoCommand
  /\ modal' = FALSE
  /\ isExporting' = [isExporting EXCEPT ![e] = FALSE]

\* Exporter.downloadProcessedAudio up to `await video.play()`.
\* playOk: whether the browser lets play() start playback (a media that is already
\* playing keeps playing, so the rejection is drawn for a paused media only).
DownloadProcessedAudio(e, playOk) ==
  LET j == Len(jobs) + 1 IN
  IF ExportBusy(e) THEN
    /\ toast' = "Export already in progress"
    /\ download' = "none"
    /\ filename' = NoFile /\ UNCHANGED wavVars /\ command' = NoCommand
    /\ UNCHANGED <<appVars, mediaVars, fxVars, expVars, engVars, domVars, jobs>>
  ELSE IF ~fxLive \/ ~IsAudioProcessed THEN
    /\ toast' = "Please select an audio preset first"
    /\ download' = "none"
    /\ filename' = NoFile /\ UNCHANGED wavVars /\ command' = NoCommand
    /\ UNCHANGED <<appVars, mediaVars, fxVars, expVars, engVars, domVars, jobs>>
  ELSE IF GetProcessedStream \in {"null", "throws"} THEN
    \* getProcessedStream returned null, or threw on a missing node: the job is over
    \* within the handler (progressBy names no suspended job)
    /\ progress' = 0 /\ progressBy' = {NoJob}
    /\ AudioCatch(j, e)
    /\ UNCHANGED <<appVars, mediaVars, fxVars, abortController, ffmpeg, isLoading, engVars,
                   jobs>>
  ELSE
    /\ isExporting' = [isExporting EXCEPT ![e] = TRUE]
    /\ modal' = TRUE /\ progress' = 0 /\ progressBy' = {j}
    /\ currentTime' = 0
    /\ IF playOk
         THEN /\ paused' = FALSE /\ playListener' = PlayListenerAfterPlay
         ELSE UNCHANGED <<paused, playListener>>
    /\ taps' = TapsAfterCall
    /\ jobs' = Append(jobs, [NewJob("audio", e, IF playOk THEN "play" ELSE "playRej")
                               EXCEPT !.startTime = currentTime, !.origPaused = paused,
                                      !.recording = TRUE])
    /\ Silent
    /\ UNCHANGED <<appVars, hasMedia, endedListeners, fxLive, audioContext, currentPreset,
                   isProcessed, reductionStrength, filters, bypassGain, processedGain,
                   ctxTime, nodeCount, connectCount, abortController, ffmpeg, isLoading,
                   engVars>>

RunDownloadAudio(playOk) ==
  /\ dispatch # <<>> /\ Head(dispatch)[1] = "audio"
  /\ playOk \/ paused
  /\ DownloadProcessedAudio(Head(dispatch)[2], playOk)
  /\ dispatch' = Tail(dispatch)

\* downloadProcessedAudio after `await video.play()` resolved: the progress interval,
\* the 'ended' listener and the abort handle
PlayResolved(j) ==
  /\ Quiet /\ j \in DOMAIN jobs /\ jobs[j].pc = "play"
  /\ jobs' = [jobs EXCEPT ![j].pc = "capture"]
  /\ endedListeners' = Append(endedListeners, j)
  /\ abortController' = [abortController EXCEPT ![jobs[j].owner] = j]
  /\ Silent
  /\ UNCHANGED <<appVars, currentTime, paused, hasMedia, fxVars, isExporting, ffmpeg,
                 isLoading, engVars, domVars, dispatch>>

\* downloadProcessedAudio after `await video.play()` rejected: the catch block
PlayRejected(j) ==
  /\ Quiet /\ j \in DOMAIN jobs /\ jobs[j].pc = "playRej"
  /\ AudioCatch(j, jobs[j].owner)
  /\ jobs' = Settle(jobs, j)
  /\ UNCHANGED <<appVars, mediaVars, fxVars, abortController, ffmpeg, isLoading, engVars,
                 progress, progressBy, dispatch>>

\* the callback of progressInterval (the interval runs while the job captures)
ProgressInterval(j) ==
  /\ Quiet /\ j \in DOMAIN jobs /\ jobs[j].pc = "capture"
  /\ progress' = CaptureProgress /\ progressBy' = {j}
  /\ Silent
  /\ UNCHANGED <<appVars, mediaVars, fxVars, expVars, engVars, modal, jobs, dispatch>>

\* The body shared by onEnded and abortController.abort, closed over job j:
\* clearInterval; mediaRecorder.stop(), which throws InvalidStateError on a recorder
\* that is no longer recording and so ends the body; removeEventListener; restore the
\* position; pause.  The recorder of a job records until this body has run once.
StopThrows(j) == jobs[j].pc # "capture"

\* the values of jobs, endedListeners, currentTime and paused after the body
AfterStopCapture(j) ==
  IF StopThrows(j)
    THEN [js |-> jobs, ls |-> endedListeners, t |-> currentTime, p |-> paused]
    ELSE [js |-> PauseJobs([jobs EXCEPT ![j].pc = "stopPending", ![j].startTime = 0,
                                         ![j].origPaused = TRUE, ![j].recording = FALSE]),
          ls |-> SelectSeq(endedListeners, LAMBDA x : x # j),
          t |-> jobs[j].startTime, p |-> TRUE]

\* onEnded of job j, as the media's 'ended' event reaches it
RunOnEnded ==
  /\ dispatch # <<>> /\ Head(dispatch)[1] = "ended"
  /\ LET a == AfterStopCapture(Head(dispatch)[2]) IN
       /\ jobs' = a.js /\ endedListeners' = a.ls /\ currentTime' = a.t /\ paused' = a.p
  /\ dispatch' = Tail(dispatch)
  /\ Silent
  /\ UNCHANGED <<appVars, hasMedia, fxVars, expVars, engVars, domVars>>

\* mediaRecorder.onstop up to `await this.convertToWav(blob)`
OnStop(j) ==
  /\ Quiet /\ j \in DOMAIN jobs /\ jobs[j].pc = "stopPending"
  /\ progress' = 80 /\ progressBy' = {j}
  /\ jobs' = [jobs EXCEPT ![j].pc = "converting"]
  /\ Silent
  /\ UNCHANGED <<appVars, mediaVars, fxVars, expVars, engVars, modal, dispatch>>

\* an onstop that delivers nothing when the conversion failed
FallbackFileDropped(wavOk) == IF wavOk THEN "wav" ELSE "none"

\* the file mediaRecorder.onstop hands to downloadBlob: try { wav } catch { webm }
FallbackFile(wavOk) == IF wavOk THEN "wav" ELSE "webm"

\* mediaRecorder.onstop after convertToWav settled: the WAV, or the WebM fallback
ConvertDone(j, wavOk) ==
  /\ Quiet /\ j \in DOMAIN jobs /\ jobs[j].pc = "converting"
  /\ jobs' = Settle(jobs, j)
  /\ download' = FallbackFile(wavOk)
  /\ filename' = GetExportFilename(FallbackFile(wavOk))
  /\ UNCHANGED wavVars /\ command' = NoCommand
  /\ toast' = IF wavOk THEN "Audio exported successfully!"
              ELSE "Audio exported as WebM (WAV conversion unavailable)"
  /\ modal' = FALSE
  /\ isExporting' = [isExporting EXCEPT ![jobs[j].owner] = FALSE]
  /\ UNCHANGED <<appVars, mediaVars, fxVars, abortController, ffmpeg, isLoading, engVars,
                 progress, progressBy, dispatch>>

----------------------------------------------------------------------------
\* Exporter: video export

\* the percentage the 'progress' listener reports: 60 + progress * 35
EngineProgressPercent(k) == Round(60 * ProgressSteps + 35 * k, ProgressSteps)

\* a catch block that reports the error and hides the modal but leaves the busy flag set
VideoCatchKeepsBusy(j, e, message) ==
  /\ toast' = message
  /\ download' = "none"
  /\ filename' = NoFile /\ UNCHANGED wavVars /\ command' = NoCommand
  /\ modal' = FALSE
  /\ UNCHANGED isExporting
  /\ jobs' = Settle(jobs, j)

\* the catch block of downloadProcessedVideo, for job j of exporter e
VideoCatch(j, e, message) ==
  /\ toast' = message
  /\ download' = "none"
  /\ filename' = NoFile /\ UNCHANGED wavVars /\ command' = NoCommand
  /\ modal' = FALSE
  /\ isExporting' = [isExporting EXCEPT ![e] = FALSE]
  /\ jobs' = Settle(jobs, j)

\* the message the catch block derives from the error
CatchMessage(err) ==
  IF err = "sab"
    THEN "Video export requires HTTPS with proper headers. Try audio export instead."
  ELSE IF err = "url"
    THEN "Video file required for export. URL-based videos cannot be re-encoded."
  ELSE "Video export failed"

\* Exporter.loadFFmpeg up to its first await: where the caller is suspended
LoadFFmpegEntry(e) ==
  IF ffmpeg[e] # "null" THEN "loaded"
  ELSE IF isLoading[e] THEN "poll"
  ELSE "import"

\* Exporter.downloadProcessedVideo up to the first await (inside loadFFmpeg)
DownloadProcessedVideo(e) ==
  LET j == Len(jobs) + 1 IN
  IF ExportBusy(e) THEN
    /\ toast' = "Export already in progress"
    /\ download' = "none"
    /\ filename' = NoFile /\ UNCHANGED wavVars /\ command' = NoCommand
    /\ UNCHANGED <<appVars, mediaVars, fxVars, expVars, engVars, domVars, jobs>>
  ELSE
    /\ isExporting' = [isExporting EXCEPT ![e] = TRUE]
    /\ modal' = TRUE /\ progress' = 0 /\ progressBy' = {j}
    /\ isLoading' = [isLoading EXCEPT ![e] = (LoadFFmpegEntry(e) = "import") \/ @]
    /\ jobs' = Append(jobs, NewJob("video", e, LoadFFmpegEntry(e)))
    /\ Silent
    /\ UNCHANGED <<appVars, mediaVars, fxVars, abortController, ffmpeg, engVars>>

RunDownloadVideo ==
  /\ dispatch # <<>> /\ Head(dispatch)[1] = "video"
  /\ DownloadProcessedVideo(Head(dispatch)[2])
  /\ dispatch' = Tail(dispatch)

\* loadFFmpeg after the dynamic imports: this.ffmpeg = new FFmpeg(), then the core
\* load is awaited; or the import failed: finally, then the caller's catch
ImportDone(j, ok) ==
  /\ Quiet /\ j \in DOMAIN jobs /\ jobs[j].pc = "import"
  /\ LET e == jobs[j].owner IN
       IF ok
         THEN /\ ffmpeg' = [ffmpeg EXCEPT ![e] = "created"]
              /\ fsInput' = [fsInput EXCEPT ![e] = FALSE]
              /\ fsOutput' = [fsOutput EXCEPT ![e] = FALSE]
              /\ progListeners' = [progListeners EXCEPT ![e] = {}]
              /\ jobs' = [jobs EXCEPT ![j].pc = "coreLoad"]
              /\ Silent
              /\ UNCHANGED <<isExporting, isLoading, modal>>
         ELSE /\ isLoading' = [isLoading EXCEPT ![e] = FALSE]
              /\ VideoCatch(j, e, CatchMessage("load"))
              /\ UNCHANGED <<ffmpeg, engVars>>
  /\ UNCHANGED <<appVars, mediaVars, fxVars, abortController, progress, progressBy,
                 dispatch>>

\* loadFFmpeg after `await this.ffmpeg.load(...)`; err: "ok", or what the error names
CoreLoadDone(j, err) ==
  /\ Quiet /\ j \in DOMAIN jobs /\ jobs[j].pc = "coreLoad"
  /\ LET e == jobs[j].owner IN
       /\ isLoading' = [isLoading EXCEPT ![e] = FALSE]
       /\ IF err = "ok"
            THEN /\ ffmpeg' = [ffmpeg EXCEPT ![e] = "loaded"]
                 /\ jobs' = [jobs EXCEPT ![j].pc = "loaded"]
                 /\ Silent
                 /\ UNCHANGED <<isExporting, modal>>
            ELSE /\ VideoCatch(j, e, CatchMessage(err))
                 /\ UNCHANGED ffmpeg
  /\ UNCHANGED <<appVars, mediaVars, fxVars, abortController, engVars, progress,
                 progressBy, dispatch>>

\* loadFFmpeg's wait loop: leaves when isLoading is false, and returns
PollWake(j) ==
  /\ Quiet /\ j \in DOMAIN jobs /\ jobs[j].pc = "poll"
  /\ ~isLoading[jobs[j].owner]
  /\ jobs' = [jobs EXCEPT ![j].pc = "loaded"]
  /\ Silent
  /\ UNCHANGED <<appVars, mediaVars, fxVars, expVars, engVars, domVars, dispatch>>

\* downloadProcessedVideo after `await this.loadFFmpeg()`: the source check, then
\* `await this.app.videoFile.arrayBuffer()`
AfterLoad(j) ==
  /\ Quiet /\ j \in DOMAIN jobs /\ jobs[j].pc = "loaded"
  /\ IF ~videoFile
       THEN /\ VideoCatch(j, jobs[j].owner, CatchMessage("url"))
            /\ UNCHANGED <<progress, progressBy>>
       ELSE /\ progress' = 20 /\ progressBy' = {j}
            /\ jobs' = [jobs EXCEPT ![j].pc = "write", ![j].fx = fxLive]
            /\ Silent
            /\ UNCHANGED <<isExporting, modal>>
  /\ UNCHANGED <<appVars, mediaVars, fxVars, abortController, ffmpeg, isLoading, engVars,
                 dispatch>>

\* after the bytes were read: `await this.ffmpeg.writeFile('input.mp4', ...)`, a
\* TypeError when this.ffmpeg is null, a rejection when the engine is not loaded or
\* the write fails (ok); then progress 40 and 60, the 'progress' listener and exec
WriteDone(j, ok) ==
  /\ Quiet /\ j \in DOMAIN jobs /\ jobs[j].pc = "write"
  /\ LET e == jobs[j].owner IN
       IF ffmpeg[e] = "loaded" /\ ok
         THEN /\ fsInput' = [fsInput EXCEPT ![e] = TRUE]
              /\ progListeners' = [progListeners EXCEPT ![e] = @ \cup {j}]
              /\ progress' = 60 /\ progressBy' = {j}
              /\ jobs' = [jobs EXCEPT ![j].pc = "exec", ![j].fx = FALSE]
              /\ toast' = "none" /\ download' = "none" /\ filename' = NoFile
              /\ UNCHANGED wavVars
              /\ command' = ExecArgs(IF jobs[j].fx THEN currentPreset ELSE "off")
              /\ UNCHANGED <<isExporting, modal, fsOutput>>
         ELSE /\ VideoCatch(j, e, CatchMessage("engine"))
              /\ UNCHANGED <<engVars, progress, progressBy>>
  /\ UNCHANGED <<appVars, mediaVars, fxVars, abortController, ffmpeg, isLoading, dispatch>>

\* the engine's 'progress' event for the exec of job j, progress k/ProgressSteps (an
\* exec's progress does not go back): every listener registered on that engine calls
\* updateExportProgress(60 + progress * 35)
EngineProgress(j, k) ==
  /\ Quiet /\ j \in DOMAIN jobs /\ jobs[j].pc = "exec" /\ k >= jobs[j].execProgress
  /\ progress' = EngineProgressPercent(k) /\ progressBy' = progListeners[jobs[j].owner]
  /\ jobs' = [jobs EXCEPT ![j].execProgress = k]
  /\ Silent
  /\ UNCHANGED <<appVars, mediaVars, fxVars, expVars, engVars, modal, dispatch>>

\* after `await this.ffmpeg.exec(...)`
ExecDone(j, ok) ==
  /\ Quiet /\ j \in DOMAIN jobs /\ jobs[j].pc = "exec"
  /\ LET e == jobs[j].owner IN
       IF ok
         THEN /\ fsOutput' = [fsOutput EXCEPT ![e] = TRUE]
              /\ progress' = 95 /\ progressBy' = {j}
              /\ jobs' = [jobs EXCEPT ![j].pc = "readFile", ![j].execProgress = 0]
              /\ Silent
              /\ UNCHANGED <<isExporting, modal>>
         ELSE /\ VideoCatch(j, e, CatchMessage("engine"))
              /\ UNCHANGED <<fsOutput, progress, progressBy>>
  /\ UNCHANGED <<appVars, mediaVars, fxVars, abortController, ffmpeg, isLoading, fsInput,
                 progListeners, dispatch>>

\* after `await this.ffmpeg.readFile(outputName)`: downloadBlob, then deleteFile
ReadDone(j, ok) ==
  /\ Quiet /\ j \in DOMAIN jobs /\ jobs[j].pc = "readFile"
  /\ LET e == jobs[j].owner IN
       IF fsOutput[e] /\ ok
         THEN /\ download' = "mp4" /\ toast' = "none"
              /\ filename' = GetExportFilename("mp4")
              /\ UNCHANGED wavVars /\ command' = NoCommand
              /\ jobs' = [jobs EXCEPT ![j].pc = "delInput"]
              /\ UNCHANGED <<isExporting, modal>>
         ELSE VideoCatch(j, e, CatchMessage("engine"))
  /\ UNCHANGED <<appVars, mediaVars, fxVars, abortController, ffmpeg, isLoading, engVars,
                 progress, progressBy, dispatch>>

\* after `await this.ffmpeg.deleteFile('input.mp4')`
DeleteInputDone(j, ok) ==
  /\ Quiet /\ j \in DOMAIN jobs /\ jobs[j].pc = "delInput"
  /\ LET e == jobs[j].owner IN
       IF fsInput[e] /\ ok
         THEN /\ fsInput' = [fsInput EXCEPT ![e] = FALSE]
              /\ jobs' = [jobs EXCEPT ![j].pc = "delOutput"]
              /\ Silent
              /\ UNCHANGED <<isExporting, modal>>
         ELSE /\ VideoCatch(j, e, CatchMessage("engine"))
              /\ UNCHANGED fsInput
  /\ UNCHANGED <<appVars, mediaVars, fxVars, abortController, ffmpeg, isLoading, fsOutput,
                 progListeners, progress, progressBy, dispatch>>

\* after `await this.ffmpeg.deleteFile(outputName)`: progress 100, the success toast and
\* the 500 ms timer
DeleteOutputDone(j, ok) ==
  /\ Quiet /\ j \in DOMAIN jobs /\ jobs[j].pc = "delOutput"
  /\ LET e == jobs[j].owner IN
       IF fsOutput[e] /\ ok
         THEN /\ fsOutput' = [fsOutput EXCEPT ![e] = FALSE]
              /\ progress' = 100 /\ progressBy' = {j}
              /\ toast' = "Video exported successfully!" /\ download' = "none" /\ filename' = NoFile /\ UNCHANGED wavVars /\ command' = NoCommand
              /\ jobs' = [jobs EXCEPT ![j].pc = "timer"]
              /\ UNCHANGED <<isExporting, modal>>
         ELSE /\ VideoCatch(j, e, CatchMessage("engine"))
              /\ UNCHANGED <<fsOutput, progress, progressBy>>
  /\ UNCHANGED <<appVars, mediaVars, fxVars, abortController, ffmpeg, isLoading, fsInput,
                 progListeners, dispatch>>

\* the callback of the 500 ms timer
HideTimer(j) ==
  /\ Quiet /\ j \in DOMAIN jobs /\ jobs[j].pc = "timer"
  /\ modal' = FALSE
  /\ isExporting' = [isExporting EXCEPT ![jobs[j].owner] = FALSE]
  /\ jobs' = Settle(jobs, j)
  /\ Silent
  /\ UNCHANGED <<appVars, mediaVars, fxVars, abortController, ffmpeg, isLoading, engVars,
                 progress, progressBy, dispatch>>

----------------------------------------------------------------------------
\* Exporter.cancelExport

\* the jobs of exporter e that a cancellation request is addressed to
Unsettled(e) == {j \in DOMAIN jobs : jobs[j].owner = e /\ jobs[j].pc # "done"}

MarkCancelled(js, e) ==
  [i \in DOMAIN js |-> IF i \in Unsettled(e) THEN [js[i] EXCEPT !.cancelled = TRUE] ELSE js[i]]

CancelExport(e) ==
  LET j == abortController[e] IN
  IF j # NoJob /\ StopThrows(j) THEN
    \* abort() threw out of cancelExport
    /\ jobs' = MarkCancelled(jobs, e)
    /\ Silent
    /\ UNCHANGED <<appVars, mediaVars, fxVars, expVars, engVars, domVars>>
  ELSE
    /\ IF j # NoJob
         THEN LET a == AfterStopCapture(j) IN
                /\ jobs' = MarkCancelled(a.js, e) /\ endedListeners' = a.ls
                /\ currentTime' = a.t /\ paused' = a.p
         ELSE /\ jobs' = MarkCancelled(jobs, e)
              /\ UNCHANGED <<endedListeners, currentTime, paused>>
    /\ modal' = FALSE
    /\ isExporting' = [isExporting EXCEPT ![e] = FALSE]
    /\ toast' = "Export cancelled" /\ download' = "none" /\ filename' = NoFile /\ UNCHANGED wavVars /\ command' = NoCommand
    /\ UNCHANGED <<appVars, hasMedia, fxVars, abortController, ffmpeg, isLoading, engVars,
                   progress, progressBy>>

RunCancelExport ==
  /\ dispatch # <<>> /\ Head(dispatch)[1] = "cancel"
  /\ CancelExport(Head(dispatch)[2])
  /\ dispatch' = Tail(dispatch)

----------------------------------------------------------------------------
\* Clicks on the controls every Exporter has subscribed to (Exporter.init)

\* the exporters whose guard lets a new job through
Free == {e \in 1..nExp : ~ExportBusy(e)}

ClickDownloadAudio ==
  /\ Quiet /\ view = "watch" /\ nExp > 0
  /\ (fxLive /\ IsAudioProcessed /\ audioContext = "ready")
       => Len(jobs) + Cardinality(Free) <= MaxJobs
  /\ dispatch' = [e \in 1..nExp |-> <<"audio", e>>]
  /\ Silent
  /\ UNCHANGED <<appVars, mediaVars, fxVars, expVars, engVars, domVars, jobs>>

ClickDownloadVideo ==
  /\ Quiet /\ view = "watch" /\ nExp > 0
  /\ Len(jobs) + Cardinality(Free) <= MaxJobs
  /\ dispatch' = [e \in 1..nExp |-> <<"video", e>>]
  /\ Silent
  /\ UNCHANGED <<appVars, mediaVars, fxVars, expVars, engVars, domVars, jobs>>

ClickCancel ==
  /\ Quiet /\ nExp > 0
  /\ dispatch' = [e \in 1..nExp |-> <<"cancel", e>>]
  /\ Silent
  /\ UNCHANGED <<appVars, mediaVars, fxVars, expVars, engVars, domVars, jobs>>

----------------------------------------------------------------------------
Next ==
  \/ HandleFileUpload
  \/ HandleUrlSubmit
  \/ \E isVideo \in BOOLEAN : UrlFetchDone(isVideo)
  \/ LoadedMetadata
  \/ LoadError
  \/ GoHome
  \/ MediaAdvance
  \/ MediaEnded
  \/ TogglePlay
  \/ \E seconds \in {0 - 1, 1} : Skip(seconds)
  \/ \E outcome \in {"ready", "null", "partial"} : InitAudioContext(outcome)
  \/ \E preset \in Presets : SetPreset(preset)
  \/ ABToggle
  \/ ClickDownloadAudio
  \/ ClickDownloadVideo
  \/ ClickCancel
  \/ \E playOk \in BOOLEAN : RunDownloadAudio(playOk)
  \/ \E j \in JobIds : PlayResolved(j)
  \/ \E j \in JobIds : PlayRejected(j)
  \/ \E j \in JobIds : ProgressInterval(j)
  \/ RunOnEnded
  \/ \E j \in JobIds : OnStop(j)
  \/ \E j \in JobIds, wavOk \in BOOLEAN : ConvertDone(j, wavOk)
  \/ RunDownloadVideo
  \/ \E j \in JobIds, ok \in BOOLEAN : ImportDone(j, ok)
  \/ \E j \in JobIds, err \in {"ok", "sab", "load"} : CoreLoadDone(j, err)
  \/ \E j \in JobIds : PollWake(j)
  \/ \E j \in JobIds : AfterLoad(j)
  \/ \E j \in JobIds, ok \in BOOLEAN : WriteDone(j, ok)
  \/ \E j \in JobIds, k \in 0..ProgressSteps : EngineProgress(j, k)
  \/ \E j \in JobIds, ok \in BOOLEAN : ExecDone(j, ok)
  \/ \E j \in JobIds, ok \in BOOLEAN : ReadDone(j, ok)
  \/ \E j \in JobIds, ok \in BOOLEAN : DeleteInputDone(j, ok)
  \/ \E j \in JobIds, ok \in BOOLEAN : DeleteOutputDone(j, ok)
  \/ \E j \in JobIds : HideTimer(j)
  \/ RunCancelExport

Spec == Init /\ [][Next]_vars

----------------------------------------------------------------------------
\* Properties of the export orchestrator

\* the handler about to run is an export request on exporter e
ExportRequest(e) ==
  dispatch # <<>> /\ Head(dispatch)[1] \in {"audio", "video"} /\ Head(dispatch)[2] = e

\* the handler about to run is a cancellation request on exporter e
CancelRequest(e) ==
  dispatch # <<>> /\ Head(dispatch) = <<"cancel", e>>

\* job j is an audio job whose capture has the media (recorder started, not yet stopped)
Capturing(j) == jobs[j].kind = "audio" /\ jobs[j].pc \in {"play", "playRej", "capture"}

\* job j runs a step of its own code
Acts(j) == jobs'[j].pc # jobs[j].pc

ErrorToasts ==
  {"Audio export failed", "Video export failed",
   "Video export requires HTTPS with proper headers. Try audio export instead.",
   "Video file required for export. URL-based videos cannot be re-encoded."}

\* C1: an export request on a busy exporter is answered with 'Export already in
\* progress'; it starts nothing and changes nothing of the running job: the busy flags,
\* the jobs (their position in the code, their recorder), the progress, the modal, the
\* abort handles, the engine and the media are as before.
C1_BusyRejected ==
  [][\A e \in Exporters :
       (ExportRequest(e) /\ isExporting[e]) =>
          /\ toast' = "Export already in progress"
          /\ download' = "none"
          /\ UNCHANGED <<jobs, expVars, engVars, domVars, mediaVars>>]_vars

\* C1, witness: a request has just been rejected while a job of the exporter runs
C1_Witness ==
  /\ toast = "Export already in progress"
  /\ \E j \in DOMAIN jobs : jobs[j].pc # "done" /\ isExporting[jobs[j].owner]

\* C2: at most one export job is unsettled (capturing, loading the engine, transcoding
\* or finalising) at any time.
C2_AtMostOneJob ==
  Cardinality({j \in DOMAIN jobs : jobs[j].pc # "done"}) <= 1

\* C3: a cancellation while the capture of an audio job runs (its abort handle is
\* installed) leaves the media at the position and in the paused/playing state it had
\* when the export started.
C3_CancelRestores ==
  [][\A j \in DOMAIN jobs :
       (CancelRequest(jobs[j].owner) /\ jobs[j].kind = "audio" /\ jobs[j].pc = "capture") =>
          /\ currentTime' = jobs[j].startTime
          /\ paused' = jobs[j].origPaused]_vars

\* C4: no step of a cancelled job hands a file to downloadBlob.
C4_CancelledDiscarded ==
  [][\A j \in DOMAIN jobs : (jobs[j].cancelled /\ Acts(j)) => download' = "none"]_vars

\* C5: no step of a cancelled job reports a failure.
C5_CancelledNeverFails ==
  [][\A j \in DOMAIN jobs : (jobs[j].cancelled /\ Acts(j)) => toast' \notin ErrorToasts]_vars

\* C6: whenever the capture of an audio job gives the media back (end of media,
\* cancellation, or an error after the position was reset), the media is at the
\* snapshot position and in its original paused state (stated for a media that
\* was paused when the capture started and that the exit finds loaded).
C6_RestoredOnEveryExit ==
  [][\A j \in DOMAIN jobs :
       (/\ Capturing(j) /\ jobs[j].origPaused /\ hasMedia'
        /\ jobs'[j].pc \notin {"play", "playRej", "capture"}) =>
          /\ currentTime' = jobs[j].startTime
          /\ paused' = jobs[j].origPaused]_vars

\* C7: two successive progress reports of one job never decrease, and every reported
\* value lies in 0..100 (stated for the steps that leave the media loaded).
C7_ProgressMonotonic ==
  [][\A j \in JobIds :
       (progressBy = {j} /\ progressBy' = {j} /\ hasMedia') =>
          /\ progress <= progress'
          /\ progress' \in 0..100]_vars

\* C8: while the job started last is unsettled, a step that is not of its code does not
\* report progress, hide the modal or clear its exporter's busy flag (cancellation
\* requests aside, which are the user's).
C8_NoInterleaving ==
  [][\A j \in DOMAIN jobs :
       (j = Len(jobs) /\ jobs[j].pc # "done" /\ Quiet /\ jobs'[j] = jobs[j]) =>
          /\ (progressBy' # progressBy \/ progress' # progress) => progressBy' = {j}
          /\ modal => modal'
          /\ isExporting[jobs[j].owner] => isExporting'[jobs[j].owner]]_vars

\* C9: a video export request while app.videoFile is null is rejected at once with the
\* 'URL-based videos cannot be re-encoded' message: no job is suspended, no engine load
\* is started.
C9_UrlSourceFailsFast ==
  [][\A e \in Exporters :
       (ExportRequest(e) /\ Head(dispatch)[1] = "video" /\ ~isExporting[e] /\ ~videoFile) =>
          /\ toast' = "Video file required for export. URL-based videos cannot be re-encoded."
          /\ UNCHANGED <<jobs, ffmpeg, isLoading, isExporting>>]_vars

\* job j is a video job that has written input.mp4 into its engine's storage
WroteInput(j) ==
  jobs[j].kind = "video" /\ jobs[j].pc \in {"exec", "readFile", "delInput", "delOutput", "timer"}

\* C10: when a video job that has written input.mp4 settles, by success or by failure,
\* neither input.mp4 nor output.mp4 is left in its engine's storage.
C10_CleanupUnconditional ==
  [][\A j \in DOMAIN jobs :
       (WroteInput(j) /\ jobs'[j].pc = "done") =>
          /\ ~fsInput'[jobs[j].owner]
          /\ ~fsOutput'[jobs[j].owner]]_vars

----------------------------------------------------------------------------
\* Properties of the engine load and of the recorder's stop

\* job j's call of loadFFmpeg returns in the step (at once, or from its wait loop)
LoadReturns(j) ==
  /\ j \in DOMAIN jobs' /\ jobs'[j].pc = "loaded"
  /\ j \in DOMAIN jobs => jobs[j].pc # "loaded"

\* job j's call of loadFFmpeg starts to initialise the engine in the step
LoadStarts(j) ==
  /\ j \in DOMAIN jobs' /\ jobs'[j].pc = "import"
  /\ j \in DOMAIN jobs => jobs[j].pc # "import"

\* the jobs whose loadFFmpeg is initialising the engine of exporter e
Initialising(e) ==
  {j \in DOMAIN jobs : jobs[j].owner = e /\ jobs[j].pc \in {"import", "coreLoad"}}

\* C11: per exporter at most one initialisation of the engine is in flight; a call of
\* loadFFmpeg does not return while an initialisation is in flight (it waits for it);
\* and no call starts an initialisation once the engine is loaded.
C11_SingleEngineLoad ==
  [][\A j \in JobIds, e \in Exporters :
       /\ Cardinality(Initialising(e)) <= 1
       /\ (LoadReturns(j) /\ jobs'[j].owner = e) => Initialising(e)' = {}
       /\ (LoadStarts(j) /\ jobs'[j].owner = e) => ffmpeg[e] # "loaded"]_vars

\* C12: the recorder's stop handler delivers nothing before the conversion settles and
\* then exactly one file with a success toast: the WAV, or the WebM fallback with the
\* toast that names the fallback; never an export error.
C12_FallbackDelivered ==
  [][\A j \in DOMAIN jobs :
       /\ (jobs[j].pc = "stopPending" /\ Acts(j)) =>
             jobs'[j].pc = "converting" /\ download' = "none" /\ toast' = "none"
       /\ (jobs[j].pc = "converting" /\ Acts(j)) =>
             /\ jobs'[j].pc = "done"
             /\ \/ download' = "wav" /\ toast' = "Audio exported successfully!"
                \/ /\ download' = "webm"
                   /\ toast' = "Audio exported as WebM (WAV conversion unavailable)"]_vars

\* a conversion has just failed and the WebM fallback was delivered
C12_Witness ==
  download = "webm" /\ toast = "Audio exported as WebM (WAV conversion unavailable)"

----------------------------------------------------------------------------
\* Export jobs under the assumption that every callback eventually fires

\* the handlers the browser has queued for the event being dispatched
DispatchStep ==
  \/ \E playOk \in BOOLEAN : RunDownloadAudio(playOk)
  \/ RunDownloadVideo
  \/ RunCancelExport
  \/ RunOnEnded

\* the media plays on and ends
MediaStep == MediaAdvance \/ MediaEnded

\* the continuations of the export jobs: promise reactions, the recorder's stop event,
\* the wait loop's and the completion's timers, the engine's replies
JobStep ==
  \/ \E j \in JobIds : PlayResolved(j)
  \/ \E j \in JobIds : PlayRejected(j)
  \/ \E j \in JobIds : OnStop(j)
  \/ \E j \in JobIds, wavOk \in BOOLEAN : ConvertDone(j, wavOk)
  \/ \E j \in JobIds, ok \in BOOLEAN : ImportDone(j, ok)
  \/ \E j \in JobIds, err \in {"ok", "sab", "load"} : CoreLoadDone(j, err)
  \/ \E j \in JobIds : PollWake(j)
  \/ \E j \in JobIds : AfterLoad(j)
  \/ \E j \in JobIds, ok \in BOOLEAN : WriteDone(j, ok)
  \/ \E j \in JobIds, ok \in BOOLEAN : ExecDone(j, ok)
  \/ \E j \in JobIds, ok \in BOOLEAN : ReadDone(j, ok)
  \/ \E j \in JobIds, ok \in BOOLEAN : DeleteInputDone(j, ok)
  \/ \E j \in JobIds, ok \in BOOLEAN : DeleteOutputDone(j, ok)
  \/ \E j \in JobIds : HideTimer(j)

\* what the user does on the watch view of a local file: starts playback, selects a
\* preset, requests exports and cancels them; the user leaves the playback alone
UserStep ==
  \/ HandleFileUpload
  \/ LoadedMetadata
  \/ paused /\ TogglePlay
  \/ \E outcome \in {"ready", "null", "partial"} : InitAudioContext(outcome)
  \/ \E preset \in Presets : SetPreset(preset)
  \/ ClickDownloadAudio
  \/ ClickDownloadVideo
  \/ ClickCancel

LiveNext == UserStep \/ DispatchStep \/ MediaStep \/ JobStep

\* every queued handler runs; a continuation or a media event that is possible again
\* and again happens
Fairness ==
  /\ WF_vars(DispatchStep)
  /\ SF_vars(MediaStep)
  /\ SF_vars(JobStep)

SpecLive == Init /\ [][LiveNext]_vars /\ Fairness

\* C13: an exporter that is busy with a job eventually is idle again, its busy flag
\* false and the export modal hidden, whichever way the job goes (success, any error,
\* cancellation), when the callbacks of the media, the recorder, the timers and the
\* engine fire.
C13_EventuallyIdle ==
  \A e \in Exporters : isExporting[e] ~> (~isExporting[e] /\ ~modal)

\* a video job has just failed and left its exporter idle
C13_Witness ==
  /\ toast = "Video export failed"
  /\ \A e \in Exporters : ~isExporting[e]
  /\ ~modal
  /\ \E j \in DOMAIN jobs : jobs[j].pc = "done"

----------------------------------------------------------------------------
\* The audio graph of one visit of the watch view: AudioFX and its controls

FxNext ==
  \/ HandleFileUpload
  \/ LoadedMetadata
  \/ GoHome
  \/ TogglePlay
  \/ \E outcome \in {"ready", "null", "partial"} : InitAudioContext(outcome)
  \/ \E outcome \in {"ready", "null", "partial"} : CallInitAudioContext(outcome)
  \/ \E preset \in Presets : SetPreset(preset)
  \/ ABToggle
  \/ \E value \in Requested : SliderInput(value)
  \/ AudioClock
  \/ CallGetProcessedStream

SpecFx == Init /\ [][FxNext]_vars

\* the step is a call of initAudioContext
InitAudioContextCalled ==
  \E outcome \in {"ready", "null", "partial"} :
    InitAudioContext(outcome) \/ CallInitAudioContext(outcome)

\* C14: a graph that is Ready stays Ready (it never returns to Uninitialized, so it
\* becomes Ready at most once), and a call of initAudioContext on a Ready graph creates
\* no node, makes no connection and changes no state of the graph.
C14_ReadyOnceIdempotent ==
  [][audioContext = "ready" =>
       /\ audioContext' = "ready"
       /\ InitAudioContextCalled =>
            UNCHANGED <<audioContext, currentPreset, isProcessed, graphVars>>]_vars

\* C15: the graph never looks Ready (audioContext set) with nodes missing or unwired.
C15_AllOrNothing ==
  audioContext # "null" =>
    /\ filters # NoNode /\ bypassGain # NoNode /\ processedGain # NoNode
    /\ nodeCount = NodesOfGraph /\ connectCount = ConnectionsOfGraph

\* the gains of a Ready graph carry the crossfade toward the path this.isProcessed names
RampsAgree ==
  /\ bypassGain.target = (IF isProcessed THEN 0 ELSE 1)
  /\ processedGain.target = (IF isProcessed THEN 1 ELSE 0)
  /\ bypassGain.start = processedGain.start
  /\ bypassGain.end = processedGain.end
  /\ bypassGain.end - bypassGain.start = FadeTime

C17_PresetSelectsPath ==
  [][\A preset \in Presets :
       SetPreset(preset) => (isProcessed' <=> preset # "off")]_vars

\* C18: with preset Off the filters of a Ready graph carry the neutral parameter set,
\* the one createFilters gives them, whatever the strength.
C18_OffIsNeutral ==
  (audioContext = "ready" /\ currentPreset = "off") => filters = CreateFilters

\* C19: what updateFilters leaves on the filters depends on (preset, strength) only:
\* applied to the filters as they are it gives what it gives on fresh filters, for
\* every preset and every strength 0..100.
C19_MappingIsPure ==
  filters # NoNode =>
    \A preset \in Presets, strength \in 0..100 :
      UpdateFilters(filters, preset, strength) = UpdateFilters(CreateFilters, preset, strength)

\* the parameters b are at least as far from neutral as the parameters a
AtLeastAsStrong(a, b) ==
  /\ b.lowShelfGain <= a.lowShelfGain /\ a.lowShelfGain <= 0
  /\ b.highShelfGain <= a.highShelfGain /\ a.highShelfGain <= 0
  /\ b.peakGain >= a.peakGain /\ a.peakGain >= 0
  /\ b.ratio >= a.ratio /\ a.ratio >= CreateFilters.ratio

\* the gain and peak-gain terms of a equal those of b
SameGains(a, b) ==
  /\ a.lowShelfGain = b.lowShelfGain
  /\ a.highShelfGain = b.highShelfGain
  /\ a.peakGain = b.peakGain

\* C20: for each preset other than Off the shelf cuts, the peak boost and the
\* compressor ratio never move toward neutral as the strength grows over 0..100, and
\* at strength 0 the gain and peak-gain terms are those of Off: for updateFilters on
\* the filters the slider's handler has just written, and for what the handler writes
\* when the slider is moved up.
C20_MonotonicInStrength ==
  [][\A value \in Strengths :
       (SliderInput(value) /\ audioContext = "ready") =>
          /\ \A preset \in Presets \ {"off"} :
                /\ \A strength \in 0..99 :
                      AtLeastAsStrong(UpdateFilters(filters', preset, strength),
                                      UpdateFilters(filters', preset, strength + 1))
                /\ SameGains(UpdateFilters(filters', preset, 0),
                             UpdateFilters(filters', "off", 0))
          /\ (currentPreset # "off" /\ value >= reductionStrength) =>
                AtLeastAsStrong(filters, filters')]_vars

\* the slider of a Ready graph was moved up to 100 under the speech preset
C20_Witness ==
  /\ audioContext = "ready" /\ currentPreset = "speech" /\ reductionStrength = 100
  /\ filters.lowShelfGain = (0 - 12) * 100 /\ filters.ratio = 800

\* C21: a strength change stores the requested value clamped to 0..100, whatever the
\* value, reapplies the parameters of the current preset at that strength, and changes
\* neither the active path, nor the gains of the two paths, nor the preset.
C21_StrengthClamped ==
  [][\A value \in Requested :
       LET clamped == IF value < 0 THEN 0 ELSE IF value > 100 THEN 100 ELSE value
       IN SliderInput(value) =>
         /\ reductionStrength' = clamped
         /\ audioContext = "ready" =>
               filters' = UpdateFilters(filters, currentPreset, clamped)
         /\ UNCHANGED <<isProcessed, currentPreset, bypassGain, processedGain>>]_vars

----------------------------------------------------------------------------
\* The audio side of a visit: the AudioFX controls together with the audio export

CaptureNext ==
  \/ HandleFileUpload
  \/ LoadedMetadata
  \/ GoHome
  \/ MediaAdvance
  \/ MediaEnded
  \/ TogglePlay
  \/ \E outcome \in {"ready", "null", "partial"} : InitAudioContext(outcome)
  \/ \E preset \in Presets : SetPreset(preset)
  \/ ABToggle
  \/ \E value \in Strengths : SliderInput(value)
  \/ ClickDownloadAudio
  \/ ClickCancel
  \/ \E playOk \in BOOLEAN : RunDownloadAudio(playOk)
  \/ \E j \in JobIds : PlayResolved(j)
  \/ \E j \in JobIds : PlayRejected(j)
  \/ \E j \in JobIds : ProgressInterval(j)
  \/ RunOnEnded
  \/ \E j \in JobIds : OnStop(j)
  \/ \E j \in JobIds, wavOk \in BOOLEAN : ConvertDone(j, wavOk)
  \/ RunCancelExport

SpecCapture == Init /\ [][CaptureNext]_vars

\* the handler about to run is downloadProcessedAudio on exporter e
AudioRequest(e) ==
  dispatch # <<>> /\ Head(dispatch)[1] = "audio" /\ Head(dispatch)[2] = e

\* the step is a preset button, the strength slider or the A/B toggle
GraphControl ==
  \/ \E preset \in Presets : SetPreset(preset)
  \/ \E value \in Strengths : SliderInput(value)
  \/ ABToggle

\* C22: while the graph is Uninitialized (no audio context) the graph operations are
\* no-ops that do not crash: setPreset, a strength change and the A/B toggle touch no
\* node and report nothing, getProcessedStream returns null, and an audio export that
\* gets past the guards reports an error, leaves the exporter Idle with the modal
\* hidden, starts no job and leaves the media position and playback state as they were.
C22_UnreadyNoOp ==
  [][audioContext = "null" =>
       /\ GraphControl =>
            /\ UNCHANGED <<filters, bypassGain, processedGain, nodeCount, connectCount, taps>>
            /\ toast' = "none"
       /\ GetProcessedStream = "null"
       /\ \A e \in Exporters :
            (AudioRequest(e) /\ ~ExportBusy(e) /\ fxLive /\ IsAudioProcessed) =>
               /\ toast' = "Audio export failed"
               /\ ~isExporting'[e] /\ ~modal'
               /\ UNCHANGED <<jobs, taps, currentTime, paused>>]_vars

\* an audio export has just failed on a live AudioFX whose graph was never built
C22_Witness ==
  /\ fxLive /\ audioContext = "null" /\ IsAudioProcessed
  /\ reductionStrength # DefaultStrength
  /\ toast = "Audio export failed"

\* C23: an audio export requested on an idle exporter while no preset is selected
\* (preset Off, or no AudioFX) is rejected with the no-preset message before anything
\* is acquired: the exporter stays Idle, no job and no recorder is started, no tap is
\* attached to the graph, and the media position and playback state are unchanged.
C23_NoPresetRejected ==
  [][\A e \in Exporters :
       (AudioRequest(e) /\ ~ExportBusy(e) /\ (~fxLive \/ currentPreset = "off")) =>
          /\ toast' = "Please select an audio preset first"
          /\ download' = "none"
          /\ UNCHANGED <<isExporting, abortController, modal, progress, jobs,
                         endedListeners, fxVars, currentTime, paused>>]_vars

\* the request was rejected on a Ready graph with the A/B toggle on Processed
C23_Witness ==
  /\ toast = "Please select an audio preset first"
  /\ fxLive /\ audioContext = "ready" /\ currentPreset = "off" /\ isProcessed

\* C24: every file handed to downloadBlob is named <basename>_<preset>.<ext>: basename
\* the current video's name without its last extension, <preset> the current preset, or
\* "original" when no preset is in effect (preset Off, or no AudioFX), and ext wav for
\* a converted capture, webm for the fallback and mp4 for a video export.
C24_FileNamed ==
  [][download' # "none" =>
       /\ filename'.base = StripExtension(VideoName)
       /\ filename'.preset = (IF fxLive /\ currentPreset # "off" THEN currentPreset
                              ELSE "original")
       /\ filename'.ext = download'
       /\ \A j \in JobIds :
            /\ ConvertDone(j, TRUE) => download' = "wav"
            /\ ConvertDone(j, FALSE) => download' = "webm"
            /\ ReadDone(j, TRUE) => download' = "mp4"]_vars

----------------------------------------------------------------------------
\* Exporter.audioBufferToWav

\* a sample s of the channel data is held as the integer s * SampleUnit
SampleUnit == 10

\* the samples of the buffers: -1.2, -1, -0.9, -0.3, 0, 0.3, 0.9, 1, 1.2
SampleValues == {0 - 12, 0 - 10, 0 - 9, 0 - 3, 0, 3, 9, 10, 12}

\* buffer.sampleRate
SampleRates == {8000, 44100}

\* the AudioBuffers handed to audioBufferToWav
Buffers ==
  UNION {{[numberOfChannels |-> c, sampleRate |-> r, length |-> n, channels |-> d] :
             r \in SampleRates, d \in [1..c -> [1..n -> SampleValues]]} :
           c \in 1..MaxChannels, n \in 0..MaxFrames}

\* view.setUint32(offset, v, true) with the low byte last
Bytes32BigEndian(v) ==
  <<(v \div 16777216) % 256, (v \div 65536) % 256, (v \div 256) % 256, v % 256>>

\* view.setUint32(offset, v, true): the four bytes of v modulo 2^32, low byte first
Bytes32(v) ==
  <<v % 256, (v \div 256) % 256, (v \div 65536) % 256, (v \div 16777216) % 256>>

\* view.setUint16(offset, v, true) and view.setInt16(offset, v, true) for an integer v:
\* the two bytes of v modulo 2^16, low byte first (two's complement)
Bytes16(v) ==
  <<v % 256, (v \div 256) % 256>>

\* writeString: the character codes of 'RIFF', 'WAVE', 'fmt ' and 'data'
RIFF == <<82, 73, 70, 70>>
WAVE == <<87, 65, 86, 69>>
FMT == <<102, 109, 116, 32>>
DATA == <<100, 97, 116, 97>>

\* an encoder that scales the sample as it is
ClampSampleNone(k) == k

\* Math.max(-1, Math.min(1, sample))
ClampSample(k) == IF k > SampleUnit THEN SampleUnit
                  ELSE IF k < 0 - SampleUnit THEN 0 - SampleUnit ELSE k

\* an encoder that scales every sample by 0x8000: full scale wraps in setInt16
IntSampleOneScale(k) ==
  LET c == ClampSample(k)
  IN IF c < 0 THEN 0 - (((0 - c) * 32768) \div SampleUnit)
     ELSE (c * 32768) \div SampleUnit

\* sample < 0 ? sample * 0x8000 : sample * 0x7FFF, as setInt16 stores it: the
\* fraction is dropped (toward zero)
IntSample(k) ==
  LET c == ClampSample(k)
  IN IF c < 0 THEN 0 - (((0 - c) * 32768) \div SampleUnit)
     ELSE (c * 32767) \div SampleUnit

\* an encoder that writes the channels one after the other
AudioBufferToWavPlanar(b) ==
  LET dataLength == b.length * b.numberOfChannels * 2
      header == RIFF \o Bytes32(dataLength + 36) \o WAVE \o FMT \o Bytes32(16)
                  \o Bytes16(1) \o Bytes16(b.numberOfChannels) \o Bytes32(b.sampleRate)
                  \o Bytes32(b.sampleRate * b.numberOfChannels * 2)
                  \o Bytes16(b.numberOfChannels * 2) \o Bytes16(16) \o DATA
                  \o Bytes32(dataLength)
      written == [p \in 1..dataLength |->
                    LET q == (p - 1) \div 2
                    IN Bytes16(IntSample(b.channels[(q \div b.length) + 1]
                                                   [(q % b.length) + 1]))
                         [((p - 1) % 2) + 1]]
  IN header \o written

\* Exporter.audioBufferToWav: the bytes of the ArrayBuffer it returns
AudioBufferToWav(b) ==
  LET numChannels == b.numberOfChannels
      sampleRate == b.sampleRate
      format == 1
      bitDepth == 16
      bytesPerSample == bitDepth \div 8
      blockAlign == numChannels * bytesPerSample
      dataLength == b.length * blockAlign
      bufferLength == 44 + dataLength
      header == RIFF \o Bytes32(bufferLength - 8) \o WAVE \o FMT \o Bytes32(16)
                  \o Bytes16(format) \o Bytes16(numChannels) \o Bytes32(sampleRate)
                  \o Bytes32(sampleRate * blockAlign) \o Bytes16(blockAlign)
                  \o Bytes16(bitDepth) \o DATA \o Bytes32(dataLength)
      \* the sample written at offset 44 + 2 * q: frame q \div numChannels,
      \* channel q % numChannels
      written == [p \in 1..dataLength |->
                    LET q == (p - 1) \div 2
                    IN Bytes16(IntSample(b.channels[(q % numChannels) + 1]
                                                   [(q \div numChannels) + 1]))
                         [((p - 1) % 2) + 1]]
  IN header \o written

\* convertToWav once decodeAudioData has resolved: the call of audioBufferToWav
ConvertToWav ==
  /\ buffer # NoBuffer /\ wav = <<>>
  /\ wav' = AudioBufferToWav(buffer)
  /\ UNCHANGED <<appVars, mediaVars, fxVars, expVars, engVars, domVars, toast, download,
                 filename, command, jobs, dispatch, buffer>>

InitWav == Constructed /\ buffer \in Buffers /\ wav = <<>>

WavNext == ConvertToWav

SpecWav == InitWav /\ [][WavNext]_vars

\* C25: for a buffer of c channels, sample rate r and n frames audioBufferToWav writes
\* a 44-byte RIFF/WAVE PCM header with these little-endian fields: RIFF size
\* 36 + n*c*2 at 4, format 1 at 20, channels c at 22, sample rate r at 24, byte rate
\* r*c*2 at 28, block align c*2 at 32, bit depth 16 at 34, data length n*c*2 at 40;
\* the header is followed by the n*c*2 bytes of the samples.
C25_WavHeader ==
  wav # <<>> =>
    LET c == buffer.numberOfChannels
        r == buffer.sampleRate
        n == buffer.length
        U16(at) == wav[at + 1] + 256 * wav[at + 2]
        U32(at) == wav[at + 1] + 256 * wav[at + 2] + 65536 * wav[at + 3]
                     + 16777216 * wav[at + 4]
    IN /\ Len(wav) = 44 + n * c * 2
       /\ SubSeq(wav, 1, 4) = <<82, 73, 70, 70>>
       /\ SubSeq(wav, 9, 16) = <<87, 65, 86, 69, 102, 109, 116, 32>>
       /\ SubSeq(wav, 37, 40) = <<100, 97, 116, 97>>
       /\ U32(4) = 36 + n * c * 2
       /\ U32(16) = 16
       /\ U16(20) = 1
       /\ U16(22) = c
       /\ U32(24) = r
       /\ U32(28) = r * c * 2
       /\ U16(32) = c * 2
       /\ U16(34) = 16
       /\ U32(40) = n * c * 2

\* a stereo buffer of two frames at 44100 Hz was encoded: data length 8
C25_Witness ==
  /\ buffer.numberOfChannels = 2 /\ buffer.length = 2 /\ buffer.sampleRate = 44100
  /\ Len(wav) = 52 /\ wav[41] = 8 /\ wav[25] = 68 /\ wav[26] = 172

\* C26: decoding the 16-bit little-endian samples of the file audioBufferToWav wrote
\* for a buffer of in-range samples, each by the scale its sign was encoded with
\* (0x8000 below zero, 0x7FFF otherwise), recovers every sample of every channel
\* within one quantization step (one unit of the 16-bit integer).
C26_WavRoundTrip ==
  wav # <<>> =>
    \A ch \in 1..buffer.numberOfChannels, i \in 1..buffer.length :
      LET k == buffer.channels[ch][i]
          at == 44 + 2 * ((i - 1) * buffer.numberOfChannels + (ch - 1))
          u == wav[at + 1] + 256 * wav[at + 2]
          int16 == IF u >= 32768 THEN u - 65536 ELSE u
          scale == IF int16 < 0 THEN 32768 ELSE 32767
          \* |k / SampleUnit - int16 / scale| <= 1 / scale
          diff == k * scale - int16 * SampleUnit
      IN (k >= 0 - SampleUnit /\ k <= SampleUnit) =>
           (diff <= SampleUnit /\ 0 - diff <= SampleUnit)

\* a stereo buffer holding -0.9 and 0.9 in its second frame was encoded
C26_Witness ==
  /\ buffer.numberOfChannels = 2 /\ buffer.length = 2
  /\ buffer.channels[1][2] = 0 - 9 /\ buffer.channels[2][2] = 9
  /\ Len(wav) = 52
  /\ wav[49] + 256 * wav[50] = 65536 - 29491
  /\ wav[51] + 256 * wav[52] = 29490

\* C27: each error kind an export surfaces has a message of its own: the message shown
\* when a kind is surfaced is the one the code has for that kind and is not the message
\* of any other kind.  The kinds, by the place that surfaces them: ExportBusy and
\* NoActivePreset at the guards, EngineUnavailable where the engine load fails for want
\* of SharedArrayBuffer, EngineLoadFailure where it fails otherwise, SourceNotReencodable
\* where no file is at hand, TranscodeFailure where exec fails, DecodeFailure where the
\* recording cannot be decoded for the WAV.
C27_DistinctMessages ==
  [][LET Kinds == {"EngineUnavailable", "NoActivePreset", "ExportBusy", "SourceNotReencodable",
                "DecodeFailure", "EngineLoadFailure", "TranscodeFailure"}
      MessageOf(k) ==
        CASE k = "ExportBusy" -> "Export already in progress"
          [] k = "NoActivePreset" -> "Please select an audio preset first"
          [] k = "EngineUnavailable" -> CatchMessage("sab")
          [] k = "EngineLoadFailure" -> CatchMessage("load")
          [] k = "SourceNotReencodable" -> CatchMessage("url")
          [] k = "TranscodeFailure" -> CatchMessage("engine")
          [] k = "DecodeFailure" -> "Audio exported as WebM (WAV conversion unavailable)"
      Surfaced(k) ==
        CASE k = "ExportBusy" ->
               \E e \in Exporters : ExportRequest(e) /\ ExportBusy(e) /\ dispatch' # dispatch
          [] k = "NoActivePreset" ->
               \E e \in Exporters :
                 /\ AudioRequest(e) /\ ~ExportBusy(e) /\ ~(fxLive /\ IsAudioProcessed)
                 /\ dispatch' # dispatch
          [] k = "EngineUnavailable" -> \E j \in JobIds : CoreLoadDone(j, "sab")
          [] k = "EngineLoadFailure" ->
               \E j \in JobIds : ImportDone(j, FALSE) \/ CoreLoadDone(j, "load")
          [] k = "SourceNotReencodable" -> \E j \in JobIds : AfterLoad(j) /\ ~videoFile
          [] k = "TranscodeFailure" -> \E j \in JobIds : ExecDone(j, FALSE)
          [] k = "DecodeFailure" -> \E j \in JobIds : ConvertDone(j, FALSE)
  IN \A k \in Kinds :
       Surfaced(k) => /\ toast' = MessageOf(k)
                      /\ \A other \in Kinds \ {k} : toast' # MessageOf(other)]_vars

\* C28: when an audio export fails (its catch block runs) the job holds nothing any
\* more as the exporter returns to Idle: its recorder, once started, is stopped, so
\* that the capture tap feeds nothing, its progress interval is not running and its
\* 'ended' listener is not registered.
C28_ReleasedOnFailure ==
  [][\A j \in JobIds :
       PlayRejected(j) =>
         /\ ~isExporting'[jobs[j].owner]
         /\ ~jobs'[j].recording
         /\ jobs'[j].pc # "capture"
         /\ \A i \in DOMAIN endedListeners' : endedListeners'[i] # j]_vars

\* C29: on a Ready graph getProcessedStream returns a tap of the filter chain's output
\* (the compressor) when the preset is not Off and a tap of the source otherwise, and
\* it leaves the active path, the preset, the strength, the filters and the gains of
\* both paths as they were.
C29_TapFollowsPreset ==
  [][CallGetProcessedStream =>
       /\ audioContext = "ready" =>
             taps' = Append(taps, IF currentPreset # "off" THEN "compressor" ELSE "source")
       /\ UNCHANGED <<isProcessed, currentPreset, reductionStrength, filters, bypassGain,
                      processedGain, audioContext>>]_vars

\* the chain's output was tapped under a preset with the A/B toggle on Bypass
C29_Witness ==
  /\ audioContext = "ready" /\ currentPreset = "music-reduce" /\ ~isProcessed
  /\ taps = <<"compressor">>

\* C30: progress stays inside the sub-range of its stage: a value the capture's
\* interval reports is currentTime/duration x 70 (as displayed, rounded), a percentage
\* from 0 to 70, and a value a 'progress' listener forwards from the engine during a
\* transcode lies in 60..95.
C30_ProgressSubRanges ==
  [][\A j \in JobIds :
       /\ ProgressInterval(j) =>
            /\ progress' \in 0..70
            /\ 2 * progress' * Duration - 2 * 70 * currentTime <= Duration
            /\ 2 * 70 * currentTime - 2 * progress' * Duration <= Duration
       /\ \A k \in 0..ProgressSteps :
            EngineProgress(j, k) => progress' \in 60..95]_vars

\* C31: when a video export starts its exec, the engine arguments are a function of
\* the preset alone: a preset other than Off gives a copy of the video stream and an
\* aac re-encode with that preset's filter, Off or an export without an AudioFX gives a
\* plain stream copy without a filter, whatever the strength and the active path are
C31_ArgsFromPreset ==
  [][\A j \in DOMAIN jobs :
       (j \in DOMAIN jobs' /\ jobs[j].pc = "write" /\ jobs'[j].pc = "exec")
         => LET preset == IF jobs[j].fx THEN currentPreset ELSE "off" IN
              command' = IF preset = "off"
                           THEN [video |-> "copy", audio |-> "copy", filter |-> "none"]
                           ELSE [video |-> "copy", audio |-> "aac", filter |-> preset]]_vars

\* an exec was started with a preset's filter while the original path was the active one
C31_Witness ==
  /\ command = [video |-> "copy", audio |-> "aac", filter |-> "speech"]
  /\ ~isProcessed

\* C32: the file audioBufferToWav returns for n frames of c channels is 44 + n*c*2
\* bytes long, and the little-endian signed 16-bit value at byte offset
\* 44 + (i*c + k)*2 is the encoded sample i of channel k, for every frame i < n and
\* every channel k < c.
C32_FrameInterleaved ==
  wav # <<>> =>
    LET c == buffer.numberOfChannels
        n == buffer.length
    IN /\ Len(wav) = 44 + n * c * 2
       /\ \A i \in 0..(n - 1), k \in 0..(c - 1) :
            LET at == 44 + (i * c + k) * 2
                u == wav[at + 1] + 256 * wav[at + 2]
                int16 == IF u >= 32768 THEN u - 65536 ELSE u
                s == buffer.channels[k + 1][i + 1]
                sample == IF s > SampleUnit THEN SampleUnit
                          ELSE IF s < 0 - SampleUnit THEN 0 - SampleUnit ELSE s
            IN int16 = IF sample < 0 THEN 0 - (((0 - sample) * 32768) \div SampleUnit)
                       ELSE (sample * 32767) \div SampleUnit

\* a stereo buffer of two frames was encoded whose left channel holds 0.3, 0.9 and
\* whose right channel holds -0.3, -1: the file holds 0.3, -0.3, 0.9, -1 in that order
C32_Witness ==
  /\ buffer.numberOfChannels = 2 /\ buffer.length = 2
  /\ buffer.channels[1] = <<3, 9>> /\ buffer.channels[2] = <<0 - 3, 0 - 10>>
  /\ Len(wav) = 52
  /\ SubSeq(wav, 45, 52) = Bytes16(9830) \o Bytes16(0 - 9830) \o Bytes16(29490)
                             \o Bytes16(0 - 32768)

\* C33: every sample is clamped to [-1, 1] before it is scaled, so a sample of 1 or
\* more is stored as 32767, a sample of -1 or less as -32768, and no stored value has
\* the opposite sign of its sample (nothing wraps around).
C33_Saturates ==
  wav # <<>> =>
    \A ch \in 1..buffer.numberOfChannels, i \in 1..buffer.length :
      LET k == buffer.channels[ch][i]
          at == 44 + 2 * ((i - 1) * buffer.numberOfChannels + (ch - 1))
          u == wav[at + 1] + 256 * wav[at + 2]
          int16 == IF u >= 32768 THEN u - 65536 ELSE u
      IN /\ k >= SampleUnit => int16 = 32767
         /\ k <= 0 - SampleUnit => int16 = 0 - 32768
         /\ k > 0 => int16 > 0
         /\ k < 0 => int16 < 0
         /\ k = 0 => int16 = 0

\* a buffer holding 1.2 and -1.2 was encoded: 0x7FFF and 0x8000 in the file
C33_Witness ==
  /\ buffer.numberOfChannels = 1 /\ buffer.length = 2
  /\ buffer.channels[1] = <<12, 0 - 12>>
  /\ Len(wav) = 48
  /\ SubSeq(wav, 45, 48) = <<255, 127, 0, 128>>

\* C34: whenever the graph is Ready the parameters on the filter nodes are the ones
\* updateFilters gives for the stored preset and strength (applying it again changes
\* nothing), also when the preset or the strength was chosen before the graph was built.
C34_ParamsFollowState ==
  audioContext = "ready" =>
    filters = UpdateFilters(filters, currentPreset, reductionStrength)

\* C35: a cancelExport of an exporter none of whose captures is in flight (no job, a
\* video export, a capture whose handle is not installed yet, a capture that has
\* ended) runs to its end without throwing, stops no recorder and neither seeks nor
\* pauses the media.
C35_AbortOnlyOwnJob ==
  [][\A e \in 1..nExp :
       (/\ dispatch # <<>> /\ Head(dispatch) = <<"cancel", e>>
        /\ \A j \in DOMAIN jobs : ~(jobs[j].owner = e /\ jobs[j].pc = "capture"))
         => /\ toast' = "Export cancelled"
            /\ currentTime' = currentTime /\ paused' = paused
            /\ \A j \in DOMAIN jobs : jobs'[j].recording = jobs[j].recording]_vars

\* C36: outside a load in flight, an exporter whose this.ffmpeg is not null holds an
\* engine that finished loading: after a failed load no handle is cached.
C36_HandleMeansLoaded ==
  \A e \in 1..nExp : (ffmpeg[e] # "null" /\ ~isLoading[e]) => ffmpeg[e] = "loaded"

\* C37: the preset in the name of a delivered file is the preset the export started
\* and captured under, whatever setPreset did meanwhile; an audio export starts only
\* under a preset other than Off, so the file it delivers names such a preset.
C37_NamedAfterStartPreset ==
  download \in {"wav", "webm"} => filename.preset \in Presets \ {"off"}

----------------------------------------------------------------------------
\* The watch view left and entered again: one Exporter per visit, all of them
\* subscribed to the same controls

VisitsNext ==
  \/ SelectFile(MaxRevisits)
  \/ SubmitUrl(MaxRevisits)
  \/ \E isVideo \in BOOLEAN : UrlFetchDone(isVideo)
  \/ LoadedMetadata
  \/ GoHome
  \/ TogglePlay
  \/ \E outcome \in {"ready", "null", "partial"} : InitAudioContext(outcome)
  \/ \E preset \in Presets : SetPreset(preset)
  \/ ClickDownloadAudio
  \/ ClickDownloadVideo
  \/ ClickCancel
  \/ \E playOk \in BOOLEAN : RunDownloadAudio(playOk)
  \/ RunDownloadVideo
  \/ RunCancelExport

SpecVisits == Init /\ [][VisitsNext]_vars

\* C38: a click on an export or cancel control is handled by the Exporter of the
\* current visit only, however often the watch view was left and entered again: no
\* handler of an Exporter of an earlier visit is run for it.
C38_OnlyCurrentVisit ==
  \A i \in DOMAIN dispatch :
    dispatch[i][1] \in {"audio", "video", "cancel"} => dispatch[i][2] = nExp

\* C39: videoFile is set exactly when currentVideo is of type 'file', and while the
\* watch view stays shown the source the application describes is the one the view
\* loaded into the player when it was entered: it is not replaced under the view.
C39_OneSource ==
  [][/\ videoFile' <=> currentVideo' = "file"
     /\ (view = "watch" /\ view' = "watch") => currentVideo' = currentVideo]_vars

\* C40: on the graph of the current visit, the capture destinations connected by
\* getProcessedStream are never more than the captures in flight: the destination of
\* an export is disconnected when the export settles.
C40_TapsBorrowed ==
  (fxLive /\ audioContext = "ready") =>
    Len(taps) <= Cardinality({j \in DOMAIN jobs :
                                jobs[j].kind = "audio" /\ jobs[j].pc # "done"})

====
